---- MODULE Spec2Model ----
(***************************************************************************)
(* Admission limiter of Mimi-AI (src/bot/utils/rate_limiter.py), the       *)
(* command handlers that call it (src/bot/commands/chat.py), and the       *)
(* conversation memory (src/bot/utils/conversation_memory.py).             *)
(*                                                                         *)
(* Time is counted in ticks, TicksPerSecond ticks to the second, because   *)
(* time.time() is a float and get_time_until_reset truncates with int().   *)
(* The threshold table keeps the shape of the shipped one (three command   *)
(* types and "global", every window the same) with scaled-down numbers.    *)
(*                                                                         *)
(* Scheduling: the handlers are coroutines of one asyncio event loop; a    *)
(* handler gives way only at an await, so a call of a RateLimiter method   *)
(* (plain def, no await) is one step.                                      *)
(*                                                                         *)
(* Exceptions: from the states its own methods produce no statement of     *)
(* check_rate_limit raises, so Spec has none; SpecFault raises one at the  *)
(* statements of the try block to exercise the except clause.              *)
(*                                                                         *)
(* The conversation memory has its own clock (datetime.utcnow(), in ticks  *)
(* of TicksPerHour to the hour) and its own specification, SpecStore, in   *)
(* which the limiter stands still; in Spec and SpecFault the memory stands *)
(* still.                                                                  *)
(*                                                                         *)
(* SpecScopes is the memory with two guild ids (0, which the handlers pass  *)
(* for a direct message, and 1) and the clock standing still; SpecImport   *)
(* is the memory under imports checked entry by entry; SpecRoundTrip       *)
(* imports what was exported. SpecApp runs /chat, /ask and mentions of the *)
(* bot as coroutines over the limiter, the memory and the generator, each  *)
(* step going from one await to the next.                                  *)
(*                                                                         *)
(* self.limits is a variable: Init gives it the scaled-down table, and     *)
(* SpecShipped the shipped one (10, 5, 3 and 20 requests in 60 seconds)    *)
(* with calls 80 ticks apart. SpecCogs has the two RateLimiter objects of  *)
(* the application, the one of ChatCommands and the one of                 *)
(* ModerationCommands. SpecActors calls the limiter and the memory for two *)
(* users, the clocks standing still, a run working on one object.          *)
(*                                                                         *)
(* Sizes: Spec has 191,169 states, SpecFault 120,086, SpecStore 35,662,    *)
(* SpecScopes 6,255, SpecImport 7,804, SpecRoundTrip 7,634, SpecApp        *)
(* 61,264, SpecShipped 206,976, SpecCogs 1,759, SpecActors 13,549.         *)
(* With every limiter bound but NumTasks one larger Spec has 1,678,919     *)
(* states and C11, C13 and C14 hold there; with max_messages_per_user 3,   *)
(* MaxStoreTime 4 and MaxWrites 5 SpecStore has 340,796 states and C17 and *)
(* C18 hold there. With max_messages_per_user 3, memory_duration_hours 2,   *)
(* MaxStoreTime 4, MaxWrites 5, MaxImport 4, MaxRequests 4 and             *)
(* ContextMessages 2, SpecScopes has 24,852 states, SpecRoundTrip 75,736,  *)
(* SpecImport 58,978 and SpecApp 946,377, and C23, C25, C26, C27 and C30   *)
(* hold there. With every bound one larger SpecActors has 44,161 states,   *)
(* SpecShipped 56,761 and SpecApp (three tasks) 23,703,818, and C31, C36   *)
(* and C38 hold there; C33 holds on the larger Spec.                       *)
(***************************************************************************)
EXTENDS Integers, Sequences, FiniteSets, TLC

\* ---------------------------------------------------------------- bounds
MaxTime == 3
TicksPerSecond == 2
WindowSeconds == 1
ChatRequests == 2
AskRequests == 1
ModerateRequests == 1
GlobalRequests == 3
NumTasks == 2
\* the conversation memory: ConversationMemory(max_messages_per_user,
\* memory_duration_hours), scaled down from the defaults 20 and 24
max_messages_per_user == 2
memory_duration_hours == 1
TicksPerHour == 2
MaxStoreTime == 3
\* the writes to one bucket between two clears, and the entries of one import
MaxWrites == 4
MaxImport == 3
\* requests the handlers take in all
MaxRequests == 3
\* get_context's default max_messages (10 of the 20 kept)
ContextMessages == 1

\* the clock of the limiter under the shipped table: its step and its end,
\* in ticks
ShippedStep == 80
ShippedMaxTime == 160

\* ---------------------------------------------------------------- inputs
Users == {"u1"}
\* two users, for the operations of one user seen from another
Actors == {"u1", "u2"}
Tasks == 1..NumTasks
\* command_type = None (the default of get_time_until_reset, reset_user_limits)
None == "None"
\* The command types ChatCommands passes to its limiter (chat.py:38, 108), and
\* "other" for any command type that is not a key of self.limits.
CommandTypes == {"chat", "ask", "other"}

VARIABLES
    now,              \* time.time(), in ticks
    global_requests,  \* self.global_requests: user_id -> deque of timestamps
    user_requests,    \* self.user_requests: user_id -> command_type -> deque
    task,             \* the command handlers in flight, one per task
    ret,              \* the call that has just returned, with its result
    admits,           \* history: per user, the times of the calls admitted
                      \* without an exception since the user's last full reset
    utcnow,           \* datetime.utcnow(), in ticks
    conversations,    \* self.conversations: user_id -> guild_id -> deque
    message_timestamps, \* self.message_timestamps: user_id -> guild_id -> list
    out,              \* the ConversationMemory call that has just returned
    written,          \* history: per bucket, the Turns written since the
                      \* bucket was last cleared, in the order written, each
                      \* with its time and whether appended or imported
    request,          \* the chat, ask and mention handlers in flight, per task
    trace,            \* history: per task, what its present request has done
    serial,           \* history: the number of requests started
    limits,           \* self.limits of the RateLimiter
    moderation_limiter \* ModerationCommands.rate_limiter: a RateLimiter of
                      \* its own, with its global_requests and user_requests

limiterVars == <<now, global_requests, user_requests, task, ret, admits>>
storeVars == <<utcnow, conversations, message_timestamps, out, written>>
appVars == <<request, trace, serial>>
cogVars == <<limits, moderation_limiter>>
vars == <<limiterVars, storeVars, appVars, cogVars>>

\* ------------------------------------------------------------ the limiter
\* self.limits with the numbers scaled down
ScaledLimits ==
    [chat     |-> [requests |-> ChatRequests,     window |-> WindowSeconds],
     ask      |-> [requests |-> AskRequests,      window |-> WindowSeconds],
     moderate |-> [requests |-> ModerateRequests, window |-> WindowSeconds],
     global   |-> [requests |-> GlobalRequests,   window |-> WindowSeconds]]

\* self.limits as shipped
ShippedChat == 10
ShippedAsk == 5
ShippedModerate == 3
ShippedGlobal == 20
ShippedWindow == 60

ShippedLimits ==
    [chat     |-> [requests |-> ShippedChat,     window |-> ShippedWindow],
     ask      |-> [requests |-> ShippedAsk,      window |-> ShippedWindow],
     moderate |-> [requests |-> ShippedModerate, window |-> ShippedWindow],
     global   |-> [requests |-> ShippedGlobal,   window |-> ShippedWindow]]

\* limit.window, a number of seconds, in ticks
WindowTicks(limit) == limit.window * TicksPerSecond

\* d[k] of a defaultdict: a missing key is created with the default value
Touch(d, k, default) == IF k \in DOMAIN d THEN d ELSE d @@ (k :> default)

\* while q and current_time - q[0] > window: q.popleft()
RECURSIVE Evict(_, _, _)
Evict(q, current_time, window) ==
    IF q # <<>> /\ current_time - Head(q) > window
    THEN Evict(Tail(q), current_time, window)
    ELSE q

\* mutant: the global capacity compared without removing the expired timestamps
_check_global_limit_no_evict(G, user_id, current_time) ==
    LET G1 == Touch(G, user_id, <<>>)
    IN  [ok |-> Len(G1[user_id]) < limits["global"].requests, G |-> G1]

_check_global_limit(G, user_id, current_time) ==
    LET global_limit == limits["global"]
        G1 == Touch(G, user_id, <<>>)
        q  == Evict(G1[user_id], current_time, WindowTicks(global_limit))
    IN  [ok |-> Len(q) < global_limit.requests,
         G  |-> [G1 EXCEPT ![user_id] = q]]

\* mutant: the command capacity compared with <= instead of <
_check_command_limit_le(UR, user_id, command_type, current_time) ==
    LET UR1 == Touch(UR, user_id, <<>>)
        UC1 == Touch(UR1[user_id], command_type, <<>>)
        q   == Evict(UC1[command_type], current_time,
                     WindowTicks(limits[command_type]))
    IN  [ok |-> Len(q) <= limits[command_type].requests,
         UR |-> [UR1 EXCEPT ![user_id] = [UC1 EXCEPT ![command_type] = q]]]

\* mutant: the length compared without removing the expired timestamps first
_check_command_limit_no_evict(UR, user_id, command_type, current_time) ==
    LET UR1 == Touch(UR, user_id, <<>>)
        UC1 == Touch(UR1[user_id], command_type, <<>>)
    IN  [ok |-> Len(UC1[command_type]) < limits[command_type].requests,
         UR |-> [UR1 EXCEPT ![user_id] = UC1]]

_check_command_limit(UR, user_id, command_type, current_time) ==
    LET command_limit == limits[command_type]
        UR1 == Touch(UR, user_id, <<>>)
        UC1 == Touch(UR1[user_id], command_type, <<>>)
        q   == Evict(UC1[command_type], current_time, WindowTicks(command_limit))
    IN  [ok |-> Len(q) < command_limit.requests,
         UR |-> [UR1 EXCEPT ![user_id] = [UC1 EXCEPT ![command_type] = q]]]

\* mutant: the global append made only for a key of self.limits
_record_request_known_only(G, UR, user_id, command_type, current_time) ==
    LET G1 == Touch(G, user_id, <<>>)
        UR1 == Touch(UR, user_id, <<>>)
        UC1 == Touch(UR1[user_id], command_type, <<>>)
    IN  IF command_type \in DOMAIN limits
        THEN [G  |-> [G1 EXCEPT ![user_id] = Append(@, current_time)],
              UR |-> [UR1 EXCEPT ![user_id] =
                         [UC1 EXCEPT ![command_type] = Append(@, current_time)]]]
        ELSE [G |-> G, UR |-> UR]

\* mutant: the global append forgotten
RecordGlobalNot(G, user_id, current_time) == Touch(G, user_id, <<>>)

\* mutant: the global append made twice
RecordGlobalTwice(G, user_id, current_time) ==
    LET G1 == Touch(G, user_id, <<>>)
    IN  [G1 EXCEPT ![user_id] = Append(Append(@, current_time), current_time)]

\* line 95: self.global_requests[user_id].append(current_time)
RecordGlobal(G, user_id, current_time) ==
    LET G1 == Touch(G, user_id, <<>>)
    IN  [G1 EXCEPT ![user_id] = Append(@, current_time)]

\* mutant: a lost update, the append of a call overwriting the append another
\* call made at the same clock reading
RecordCommandLostUpdate(UR, user_id, command_type, current_time) ==
    IF command_type \in DOMAIN limits
    THEN LET UR1 == Touch(UR, user_id, <<>>)
             UC1 == Touch(UR1[user_id], command_type, <<>>)
             q   == UC1[command_type]
         IN  [UR1 EXCEPT ![user_id] =
                 [UC1 EXCEPT ![command_type] =
                     IF q # <<>> /\ q[Len(q)] = current_time
                     THEN q ELSE Append(q, current_time)]]
    ELSE UR

\* mutant: the command-specific append made for any command type
RecordCommandAny(UR, user_id, command_type, current_time) ==
    LET UR1 == Touch(UR, user_id, <<>>)
        UC1 == Touch(UR1[user_id], command_type, <<>>)
    IN  [UR1 EXCEPT ![user_id] =
            [UC1 EXCEPT ![command_type] = Append(@, current_time)]]

\* lines 98-99: the command-specific append, for a key of self.limits only
RecordCommand(UR, user_id, command_type, current_time) ==
    IF command_type \in DOMAIN limits
    THEN LET UR1 == Touch(UR, user_id, <<>>)
             UC1 == Touch(UR1[user_id], command_type, <<>>)
         IN  [UR1 EXCEPT ![user_id] =
                 [UC1 EXCEPT ![command_type] = Append(@, current_time)]]
    ELSE UR

_record_request(G, UR, user_id, command_type, current_time) ==
    [G  |-> RecordGlobal(G, user_id, current_time),
     UR |-> RecordCommand(UR, user_id, command_type, current_time)]

\* mutant: fail closed, the request denied when an exception is raised
check_rate_limit_except_deny(G, UR) ==
    [ok |-> FALSE, raised |-> TRUE, G |-> G, UR |-> UR]

\* The except clause of check_rate_limit: log, and allow the request.
\* G and UR are the maps as the statements run before the fault left them.
check_rate_limit_except(G, UR) ==
    [ok |-> TRUE, raised |-> TRUE, G |-> G, UR |-> UR]

\* Where an exception is raised inside the try block of check_rate_limit:
\* in the global check (line 76), in the command check (line 87), at the
\* global append (line 95) or at the command append (line 99).
FaultPoints == {"global_check", "command_check", "record_global", "record_command"}
NoFault == "none"

check_rate_limit(G, UR, user_id, command_type, current_time, fault) ==
    LET g == _check_global_limit(G, user_id, current_time)
        known == command_type \in DOMAIN limits
        c == IF known
             THEN _check_command_limit(UR, user_id, command_type, current_time)
             ELSE [ok |-> TRUE, UR |-> UR]
        r == _record_request(g.G, c.UR, user_id, command_type, current_time)
    IN  IF fault = "global_check"
        THEN check_rate_limit_except(Touch(G, user_id, <<>>), UR)
        ELSE IF ~g.ok
        THEN [ok |-> FALSE, raised |-> FALSE, G |-> g.G, UR |-> UR]
        ELSE IF known /\ fault = "command_check"
        THEN check_rate_limit_except(
                 g.G, [Touch(UR, user_id, <<>>) EXCEPT
                          ![user_id] = Touch(@, command_type, <<>>)])
        ELSE IF ~c.ok
        THEN [ok |-> FALSE, raised |-> FALSE, G |-> g.G, UR |-> c.UR]
        ELSE IF fault = "record_global"
        THEN check_rate_limit_except(g.G, c.UR)
        ELSE IF known /\ fault = "record_command"
        THEN check_rate_limit_except(r.G, c.UR)
        ELSE [ok |-> TRUE, raised |-> FALSE, G |-> r.G, UR |-> r.UR]

\* mutant: the duration rounded up to the next whole second
IntSecondsCeil(x) ==
    IF x >= 0 THEN (x + TicksPerSecond - 1) \div TicksPerSecond
    ELSE -((-x) \div TicksPerSecond)

\* int(x) of a duration of x ticks taken in seconds: truncation toward zero
IntSeconds(x) ==
    IF x >= 0 THEN x \div TicksPerSecond ELSE -((-x) \div TicksPerSecond)

Max0(x) == IF x > 0 THEN x ELSE 0

\* lines 121-123 and 130-132: max(0, int(window - (current_time - oldest)))
TimeLeft(q, limit, current_time) ==
    Max0(IntSeconds(WindowTicks(limit) - (current_time - Head(q))))

\* mutant: a known command type answered from its own deque alone
get_time_until_reset_own_only(G, UR, user_id, command_type, current_time) ==
    LET known == command_type # None /\ command_type \in DOMAIN limits
        UR1 == IF known
               THEN [Touch(UR, user_id, <<>>) EXCEPT
                        ![user_id] = Touch(@, command_type, <<>>)]
               ELSE UR
        G1  == Touch(G, user_id, <<>>)
    IN  IF known
        THEN [value |-> IF Len(UR1[user_id][command_type])
                               >= limits[command_type].requests
                        THEN TimeLeft(UR1[user_id][command_type],
                                      limits[command_type], current_time)
                        ELSE 0,
              G |-> G, UR |-> UR1]
        ELSE IF Len(G1[user_id]) >= limits["global"].requests /\ G1[user_id] # <<>>
        THEN [value |-> TimeLeft(G1[user_id], limits["global"], current_time),
              G |-> G1, UR |-> UR1]
        ELSE [value |-> 0, G |-> G1, UR |-> UR1]

get_time_until_reset(G, UR, user_id, command_type, current_time) ==
    LET known == command_type # None /\ command_type \in DOMAIN limits
        UR1 == IF known
               THEN [Touch(UR, user_id, <<>>) EXCEPT
                        ![user_id] = Touch(@, command_type, <<>>)]
               ELSE UR
        G1  == Touch(G, user_id, <<>>)
    IN  IF known /\ Len(UR1[user_id][command_type]) >= limits[command_type].requests
                 /\ UR1[user_id][command_type] # <<>>
        THEN [value |-> TimeLeft(UR1[user_id][command_type],
                                 limits[command_type], current_time),
              G |-> G, UR |-> UR1]
        ELSE IF Len(G1[user_id]) >= limits["global"].requests /\ G1[user_id] # <<>>
        THEN [value |-> TimeLeft(G1[user_id], limits["global"], current_time),
              G |-> G1, UR |-> UR1]
        ELSE [value |-> 0, G |-> G1, UR |-> UR1]

\* sum(1 for req_time in q if current_time - req_time <= limit.window)
Recent(q, limit, current_time) ==
    Cardinality({i \in DOMAIN q : current_time - q[i] <= WindowTicks(limit)})

\* one entry of the stats dict, for the global limit (command_type = None)
\* or for a command type; reads the maps after the accesses before it
StatsEntry(G, UR, user_id, command_type, current_time) ==
    LET limit == IF command_type = None THEN limits["global"]
                 ELSE limits[command_type]
        q == IF command_type = None THEN G[user_id]
             ELSE UR[user_id][command_type]
    IN  [requests_used   |-> Recent(q, limit, current_time),
         requests_limit  |-> limit.requests,
         window_seconds  |-> limit.window,
         time_until_reset |->
             get_time_until_reset(G, UR, user_id, command_type, current_time).value]

\* mutant: the expired timestamps of the global deque removed before counting
get_user_stats_evict(G, UR, user_id, current_time) ==
    LET G1  == _check_global_limit(G, user_id, current_time).G
        UR1 == [Touch(UR, user_id, <<>>) EXCEPT ![user_id] =
                   Touch(Touch(Touch(@, "chat", <<>>), "ask", <<>>), "moderate", <<>>)]
    IN  [value |-> [c \in DOMAIN limits |->
                       StatsEntry(G1, UR1, user_id,
                                  IF c = "global" THEN None ELSE c, current_time)],
         G |-> G1, UR |-> UR1]

get_user_stats(G, UR, user_id, current_time) ==
    LET G1  == Touch(G, user_id, <<>>)
        \* the loop reaches every key of self.limits but "global"
        UR1 == [Touch(UR, user_id, <<>>) EXCEPT ![user_id] =
                   Touch(Touch(Touch(@, "chat", <<>>), "ask", <<>>), "moderate", <<>>)]
    IN  [value |-> [c \in DOMAIN limits |->
                       StatsEntry(G1, UR1, user_id,
                                  IF c = "global" THEN None ELSE c, current_time)],
         G |-> G1, UR |-> UR1]

\* mutant: a reset of all command types that leaves the global deque alone
reset_user_limits_commands_only(G, UR, user_id, command_type) ==
    LET UR1 == Touch(UR, user_id, <<>>)
    IN  IF command_type # None
        THEN [G  |-> G,
              UR |-> IF command_type \in DOMAIN UR1[user_id]
                     THEN [UR1 EXCEPT ![user_id][command_type] = <<>>]
                     ELSE UR1]
        ELSE [G |-> Touch(G, user_id, <<>>), UR |-> [UR1 EXCEPT ![user_id] = <<>>]]

\* reset_user_limits emptying the maps of every user
reset_user_limits_everyone(G, UR, user_id, command_type) ==
    IF command_type # None
    THEN [G |-> G, UR |-> [u \in DOMAIN UR |-> [c \in DOMAIN UR[u] |-> <<>>]]]
    ELSE [G |-> [u \in DOMAIN G |-> <<>>], UR |-> [u \in DOMAIN UR |-> <<>>]]

reset_user_limits(G, UR, user_id, command_type) ==
    LET UR1 == Touch(UR, user_id, <<>>)
        G1  == Touch(G, user_id, <<>>)
    IN  IF command_type # None
        THEN [G  |-> G,
              UR |-> IF command_type \in DOMAIN UR1[user_id]
                     THEN [UR1 EXCEPT ![user_id][command_type] = <<>>]
                     ELSE UR1]
        ELSE [G  |-> [G1 EXCEPT ![user_id] = <<>>],
              UR |-> [UR1 EXCEPT ![user_id] = <<>>]]

\* max(limit.window for limit in self.limits.values()), in ticks
MaxWindow ==
    CHOOSE w \in {WindowTicks(limits[k]) : k \in DOMAIN limits} :
        \A k \in DOMAIN limits : WindowTicks(limits[k]) <= w

\* mutant: the emptied global deques kept
CleanGlobalKeepEmpty(G, current_time) ==
    [u \in DOMAIN G |-> Evict(G[u], current_time, MaxWindow)]

\* lines 211-218: the global deques, emptied ones deleted
CleanGlobal(G, current_time) ==
    LET E == [u \in DOMAIN G |-> Evict(G[u], current_time, MaxWindow)]
        keep == {u \in DOMAIN G : E[u] # <<>>}
    IN  [u \in keep |-> E[u]]

\* lines 224-234: one user's command deques, emptied ones deleted
CleanCommands(UC, current_time) ==
    LET E == [c \in DOMAIN UC |->
                 IF c \in DOMAIN limits
                 THEN Evict(UC[c], current_time, WindowTicks(limits[c]))
                 ELSE UC[c]]
        keep == {c \in DOMAIN UC : E[c] # <<>>}
    IN  [c \in keep |-> E[c]]

cleanup_old_data(G, UR, current_time) ==
    LET E == [u \in DOMAIN UR |-> CleanCommands(UR[u], current_time)]
        keep == {u \in DOMAIN UR : DOMAIN E[u] # {}}
    IN  [G |-> CleanGlobal(G, current_time), UR |-> [u \in keep |-> E[u]]]

\* ------------------------------------------------ the conversation memory
\* The guild ids: a guild, and the 0 the handlers pass for a direct message
\* (chat.py:50, 163). StoreGuilds are the guilds of SpecStore. NoGuild is
\* guild_id = None (the default of clear_user_memory), which no guild id equals.
Guilds == {0, 1}
StoreGuilds == {1}
NoGuild == -1
Roles == {"user", "assistant"}
\* add_message and import_conversation take any role: one more
AnyRoles == {"user", "system"}
Contents == {"a"}

\* self.memory_duration = timedelta(hours=memory_duration_hours), in ticks
memory_duration == memory_duration_hours * TicksPerHour

\* datetime.isoformat() and datetime.fromisoformat(): the text of a time
isoformat(t) == [iso |-> t]
IsIsoformat(x) == DOMAIN x = {"iso"}
fromisoformat(x) == x.iso

\* json.dumps(v) and json.loads(text): the text of a value; json.loads raises
\* on a text that is not JSON
json_dumps(v) == [json |-> v]
IsJson(text) == DOMAIN text = {"json"}
json_loads(text) == text.json

\* M[user_id][guild_id] of a defaultdict of defaultdicts: both keys created
Touch2(M, user_id, guild_id) ==
    LET M1 == Touch(M, user_id, <<>>)
    IN  [M1 EXCEPT ![user_id] = Touch(@, guild_id, <<>>)]

\* mutant: a deque without maxlen
DequeAppendUnbounded(q, x) == Append(q, x)

\* mutant: a full deque refuses the new element
DequeAppendDropNew(q, x) ==
    IF Len(q) >= max_messages_per_user THEN q ELSE Append(q, x)

\* deque(maxlen=max_messages_per_user).append(x): a full deque drops its head
DequeAppend(q, x) ==
    IF Len(q) >= max_messages_per_user THEN Append(Tail(q), x) ELSE Append(q, x)

\* lines 126-131: the number of leading timestamps before cutoff_time
RECURSIVE RemoveCount(_, _)
RemoveCount(timestamps, cutoff_time) ==
    IF timestamps # <<>> /\ Head(timestamps) < cutoff_time
    THEN 1 + RemoveCount(Tail(timestamps), cutoff_time)
    ELSE 0

\* lines 136-140: n times, pop the head if there is one
PopLeft(q, n) == IF n >= Len(q) THEN <<>> ELSE SubSeq(q, n + 1, Len(q))

_cleanup_old_messages(C, T, user_id, guild_id, current) ==
    LET cutoff_time == current - memory_duration
        T1 == Touch2(T, user_id, guild_id)
        C1 == Touch2(C, user_id, guild_id)
        remove_count == RemoveCount(T1[user_id][guild_id], cutoff_time)
    IN  [C |-> [C1 EXCEPT ![user_id][guild_id] = PopLeft(@, remove_count)],
         T |-> [T1 EXCEPT ![user_id][guild_id] = PopLeft(@, remove_count)]]

add_message(C, T, user_id, guild_id, role, content, current) ==
    LET message == [role |-> role, content |-> content,
                    timestamp |-> isoformat(current)]
        C1 == [Touch2(C, user_id, guild_id) EXCEPT
                  ![user_id][guild_id] = DequeAppend(@, message)]
        T1 == [Touch2(T, user_id, guild_id) EXCEPT
                  ![user_id][guild_id] = Append(@, current)]
    IN  _cleanup_old_messages(C1, T1, user_id, guild_id, current)

\* messages[start:] of a Python list
SliceFrom(messages, start) ==
    LET n == Len(messages)
        from == IF start < 0
                THEN (IF n + start > 0 THEN n + start ELSE 0)
                ELSE (IF start < n THEN start ELSE n)
    IN  SubSeq(messages, from + 1, n)

get_context(C, T, user_id, guild_id, max_messages, current) ==
    LET res == _cleanup_old_messages(C, T, user_id, guild_id, current)
        messages == res.C[user_id][guild_id]
        last == SliceFrom(messages, -max_messages)
    IN  [value |-> [i \in DOMAIN last |->
                       [role |-> last[i].role, content |-> last[i].content]],
         C |-> res.C, T |-> res.T]

\* "if guild_id:" is false for None and for 0
Truthy(guild_id) == guild_id # NoGuild /\ guild_id # 0

\* mutant: a call without guild_id clears nothing
clear_user_memory_scoped_only(C, T, user_id, guild_id) ==
    IF user_id \in DOMAIN C /\ Truthy(guild_id)
    THEN [C |-> [Touch2(C, user_id, guild_id) EXCEPT ![user_id][guild_id] = <<>>],
          T |-> [Touch2(T, user_id, guild_id) EXCEPT ![user_id][guild_id] = <<>>]]
    ELSE [C |-> C, T |-> T]

clear_user_memory(C, T, user_id, guild_id) ==
    IF user_id \notin DOMAIN C
    THEN [C |-> C, T |-> T]
    ELSE IF Truthy(guild_id)
    THEN [C |-> [Touch2(C, user_id, guild_id) EXCEPT ![user_id][guild_id] = <<>>],
          T |-> [Touch2(T, user_id, guild_id) EXCEPT ![user_id][guild_id] = <<>>]]
    ELSE [C |-> [C EXCEPT ![user_id] = <<>>],
          T |-> [Touch(T, user_id, <<>>) EXCEPT ![user_id] = <<>>]]

\* the guilds of user_id whose bucket clear_user_memory empties
Cleared(C, user_id, guild_id) ==
    IF user_id \notin DOMAIN C THEN {}
    ELSE IF Truthy(guild_id) THEN {guild_id}
    ELSE Guilds

MinOf(S) == CHOOSE x \in S : \A y \in S : x <= y
MaxOf(S) == CHOOSE x \in S : \A y \in S : x >= y

\* ConversationMemory.get_user_stats
conversation_get_user_stats(C, user_id, guild_id) ==
    LET C1 == Touch2(C, user_id, guild_id)
        messages == C1[user_id][guild_id]
        timestamps == {fromisoformat(messages[i].timestamp) : i \in DOMAIN messages}
    IN  [value |->
             IF messages = <<>>
             THEN [total_messages |-> 0, user_messages |-> 0, ai_messages |-> 0,
                   oldest_message |-> None, newest_message |-> None]
             ELSE [total_messages |-> Len(messages),
                   user_messages |->
                       Cardinality({i \in DOMAIN messages : messages[i].role = "user"}),
                   ai_messages |->
                       Cardinality({i \in DOMAIN messages :
                                       messages[i].role = "assistant"}),
                   oldest_message |-> isoformat(MinOf(timestamps)),
                   newest_message |-> isoformat(MaxOf(timestamps))],
         C |-> C1]

\* mutant: the export keeps role and content only
export_conversation_stripped(C, user_id, guild_id) ==
    LET C1 == Touch2(C, user_id, guild_id)
        messages == C1[user_id][guild_id]
    IN  [value |-> json_dumps([i \in DOMAIN messages |->
                                  [role |-> messages[i].role,
                                   content |-> messages[i].content]]),
         C |-> C1]

export_conversation(C, user_id, guild_id) ==
    LET C1 == Touch2(C, user_id, guild_id)
    IN  [value |-> json_dumps(C1[user_id][guild_id]), C |-> C1]

\* mutant: the loop ends at the first entry without role or content
RECURSIVE ImportLoopAbort(_, _, _, _, _, _, _)
ImportLoopAbort(C, T, user_id, guild_id, messages, current, imported) ==
    IF messages = <<>> \/ ~({"role", "content"} \subseteq DOMAIN Head(messages))
    THEN [C |-> C, T |-> T, raised |-> FALSE, imported |-> imported]
    ELSE LET message == Head(messages)
         IN  IF "timestamp" \in DOMAIN message /\ ~IsIsoformat(message.timestamp)
             THEN [C |-> C, T |-> T, raised |-> TRUE, imported |-> imported]
             ELSE LET timestamp == IF "timestamp" \in DOMAIN message
                                   THEN fromisoformat(message.timestamp)
                                   ELSE current
                      message_obj == [role |-> message.role,
                                      content |-> message.content,
                                      timestamp |-> isoformat(timestamp)]
                  IN  ImportLoopAbort(
                          [Touch2(C, user_id, guild_id) EXCEPT
                              ![user_id][guild_id] = DequeAppend(@, message_obj)],
                          [Touch2(T, user_id, guild_id) EXCEPT
                              ![user_id][guild_id] = Append(@, timestamp)],
                          user_id, guild_id, Tail(messages), current,
                          Append(imported, [role |-> message.role,
                                            content |-> message.content,
                                            at |-> timestamp,
                                            by |-> "import"]))

\* lines 226-241: the loop over the parsed entries. It ends early, with what
\* it has appended so far, when fromisoformat raises. imported is the history
\* of the Turns appended.
RECURSIVE ImportLoop(_, _, _, _, _, _, _)
ImportLoop(C, T, user_id, guild_id, messages, current, imported) ==
    IF messages = <<>>
    THEN [C |-> C, T |-> T, raised |-> FALSE, imported |-> imported]
    ELSE LET message == Head(messages)
         IN  IF ~({"role", "content"} \subseteq DOMAIN message)
             THEN ImportLoop(C, T, user_id, guild_id, Tail(messages), current,
                             imported)
             ELSE IF "timestamp" \in DOMAIN message
                     /\ ~IsIsoformat(message.timestamp)
             THEN [C |-> C, T |-> T, raised |-> TRUE, imported |-> imported]
             ELSE LET timestamp == IF "timestamp" \in DOMAIN message
                                   THEN fromisoformat(message.timestamp)
                                   ELSE current
                      message_obj == [role |-> message.role,
                                      content |-> message.content,
                                      timestamp |-> isoformat(timestamp)]
                  IN  ImportLoop(
                          [Touch2(C, user_id, guild_id) EXCEPT
                              ![user_id][guild_id] = DequeAppend(@, message_obj)],
                          [Touch2(T, user_id, guild_id) EXCEPT
                              ![user_id][guild_id] = Append(@, timestamp)],
                          user_id, guild_id, Tail(messages), current,
                          Append(imported, [role |-> message.role,
                                            content |-> message.content,
                                            at |-> timestamp,
                                            by |-> "import"]))

\* mutant: the bucket is not cleared before the entries are appended
import_conversation_no_clear(C, T, user_id, guild_id, json_data, current) ==
    IF ~IsJson(json_data)
    THEN [C |-> C, T |-> T, raised |-> TRUE, imported |-> <<>>, cleared |-> {}]
    ELSE LET res == ImportLoop(C, T, user_id, guild_id,
                               json_loads(json_data), current, <<>>)
         IN  [C |-> res.C, T |-> res.T, raised |-> res.raised,
              imported |-> res.imported, cleared |-> {}]

import_conversation(C, T, user_id, guild_id, json_data, current) ==
    IF ~IsJson(json_data)
    THEN [C |-> C, T |-> T, raised |-> TRUE, imported |-> <<>>, cleared |-> {}]
    ELSE LET cl == clear_user_memory(C, T, user_id, guild_id)
             res == ImportLoop(cl.C, cl.T, user_id, guild_id,
                               json_loads(json_data), current, <<>>)
         IN  [C |-> res.C, T |-> res.T, raised |-> res.raised,
              imported |-> res.imported,
              cleared |-> Cleared(C, user_id, guild_id)]

\* ------------------------------------------------------------ the handlers
\* The deques as a reader that creates nothing sees them.
Glob(u) == IF u \in DOMAIN global_requests THEN global_requests[u] ELSE <<>>

Win(u, c) ==
    IF u \in DOMAIN user_requests /\ c \in DOMAIN user_requests[u]
    THEN user_requests[u][c]
    ELSE <<>>

\* the slots of limit k that the timestamps of q not yet expired leave free
Free(q, k) ==
    limits[k].requests
    - Cardinality({i \in DOMAIN q : now - q[i] <= WindowTicks(limits[k])})

Idle == [pc |-> "idle", user |-> None, cmd |-> None]
NoRet == [op |-> None]

\* the program as constructed, but for self.limits
Constructed ==
    /\ now = 0
    /\ global_requests = <<>>
    /\ user_requests = <<>>
    /\ task = [r \in Tasks |-> Idle]
    /\ ret = NoRet
    /\ admits = [u \in Actors |-> <<>>]
    /\ utcnow = 0
    /\ conversations = <<>>
    /\ message_timestamps = <<>>
    /\ out = NoRet
    /\ written = [u \in Actors |-> [g \in Guilds |-> <<>>]]
    /\ request = [r \in Tasks |-> [pc |-> "idle"]]
    /\ trace = [r \in Tasks |-> <<>>]
    /\ serial = 0
    /\ moderation_limiter = [global_requests |-> <<>>, user_requests |-> <<>>]

Init == Constructed /\ limits = ScaledLimits

\* history of admissions: an admission that can no longer share an interval
\* shorter than the global window with a later one is forgotten
Forget(log, current_time) ==
    SelectSeq(log, LAMBDA x : current_time - x < WindowSeconds * TicksPerSecond)

\* time passes
Tick ==
    /\ now < MaxTime
    /\ now' = now + 1
    /\ ret' = NoRet
    /\ admits' = [u \in DOMAIN admits |-> Forget(admits[u], now + 1)]
    /\ UNCHANGED <<global_requests, user_requests, task, storeVars, appVars, cogVars>>

\* A command arrives: the handler starts and suspends at
\* "await interaction.response.defer(...)", where other handlers may run.
Defer(r, user_id, command_type) ==
    /\ task[r].pc = "idle"
    /\ task' = [task EXCEPT ![r] =
                   [pc |-> "deferred", user |-> user_id, cmd |-> command_type]]
    /\ ret' = NoRet
    /\ UNCHANGED <<now, global_requests, user_requests, admits, storeVars, appVars, cogVars>>


\* The handler resumes and calls check_rate_limit, which runs to its return
\* with no await: one step. The rest of the handler does not touch the limiter.
CheckWith(r, fault) ==
    /\ task[r].pc = "deferred"
    /\ LET res == check_rate_limit(global_requests, user_requests,
                                   task[r].user, task[r].cmd, now, fault)
       IN  /\ global_requests' = res.G
           /\ user_requests' = res.UR
           /\ ret' = [op |-> "check_rate_limit", user |-> task[r].user,
                      cmd |-> task[r].cmd, ok |-> res.ok, raised |-> res.raised,
                      \* at the call: the length of the command deque, and the
                      \* slots its unexpired timestamps left in each window
                      held |-> Len(Win(task[r].user, task[r].cmd)),
                      gfree |-> Free(Glob(task[r].user), "global"),
                      cfree |-> IF task[r].cmd \in DOMAIN limits
                                THEN Free(Win(task[r].user, task[r].cmd), task[r].cmd)
                                ELSE 0]
           /\ admits' = IF res.ok /\ ~res.raised
                        THEN [admits EXCEPT ![task[r].user] = Append(@, now)]
                        ELSE admits
    /\ task' = [task EXCEPT ![r] = Idle]
    /\ UNCHANGED <<now, storeVars, appVars, cogVars>>

Check(r) == CheckWith(r, NoFault)

CheckFault(r) == \E fault \in FaultPoints : CheckWith(r, fault)

GetTimeUntilReset(user_id, command_type) ==
    /\ LET res == get_time_until_reset(global_requests, user_requests,
                                       user_id, command_type, now)
       IN  /\ global_requests' = res.G
           /\ user_requests' = res.UR
           /\ ret' = [op |-> "get_time_until_reset", user |-> user_id,
                      cmd |-> command_type, value |-> res.value]
    /\ UNCHANGED <<now, task, admits, storeVars, appVars, cogVars>>

GetUserStats(user_id) ==
    /\ LET res == get_user_stats(global_requests, user_requests, user_id, now)
       IN  /\ global_requests' = res.G
           /\ user_requests' = res.UR
           /\ ret' = [op |-> "get_user_stats", user |-> user_id, value |-> res.value]
    /\ UNCHANGED <<now, task, admits, storeVars, appVars, cogVars>>

ResetUserLimits(user_id, command_type) ==
    /\ LET res == reset_user_limits(global_requests, user_requests,
                                    user_id, command_type)
       IN  /\ global_requests' = res.G
           /\ user_requests' = res.UR
    /\ ret' = [op |-> "reset_user_limits", user |-> user_id, cmd |-> command_type,
               \* at the call: the length of the global deque
               held |-> Len(Glob(user_id))]
    /\ admits' = IF command_type = None
                 THEN [admits EXCEPT ![user_id] = <<>>]
                 ELSE admits
    /\ UNCHANGED <<now, task, storeVars, appVars, cogVars>>

CleanupOldData ==
    /\ LET res == cleanup_old_data(global_requests, user_requests, now)
       IN  /\ global_requests' = res.G
           /\ user_requests' = res.UR
           /\ ret' = [op |-> "cleanup_old_data",
                      \* the users whose global deque lost a timestamp, and
                      \* the users no map holds any longer
                      evicted |-> {u \in DOMAIN global_requests :
                                     u \notin DOMAIN res.G
                                     \/ Len(res.G[u]) < Len(global_requests[u])},
                      dropped |-> (DOMAIN global_requests \cup DOMAIN user_requests)
                                  \ (DOMAIN res.G \cup DOMAIN res.UR)]
    /\ UNCHANGED <<now, task, admits, storeVars, appVars, cogVars>>

Next ==
    \/ Tick
    \/ \E r \in Tasks, u \in Users, c \in CommandTypes : Defer(r, u, c)
    \/ \E r \in Tasks : Check(r)
    \/ \E u \in Users, c \in {None, "chat", "ask"} : GetTimeUntilReset(u, c)
    \/ \E u \in Users : GetUserStats(u)
    \/ \E u \in Users, c \in {None, "chat", "global"} : ResetUserLimits(u, c)
    \/ CleanupOldData

Spec == Init /\ [][Next]_vars

\* The limiter with the shipped table, called for the configured command
\* types, and swept; the clock moves by ShippedStep.
InitShipped == Constructed /\ limits = ShippedLimits

ShippedTick ==
    /\ now + ShippedStep <= ShippedMaxTime
    /\ now' = now + ShippedStep
    /\ ret' = NoRet
    /\ UNCHANGED <<global_requests, user_requests, task, admits, storeVars,
                   appVars, cogVars>>

\* check_rate_limit, from the call to the return
CheckRateLimit(user_id, command_type) ==
    /\ LET res == check_rate_limit(global_requests, user_requests,
                                   user_id, command_type, now, NoFault)
       IN  /\ global_requests' = res.G
           /\ user_requests' = res.UR
           /\ ret' = [op |-> "check_rate_limit", user |-> user_id,
                      cmd |-> command_type, ok |-> res.ok, raised |-> res.raised]
    /\ UNCHANGED <<now, task, admits, storeVars, appVars, cogVars>>

NextShipped ==
    \/ ShippedTick
    \/ \E u \in Users, c \in DOMAIN limits \ {"global"} : CheckRateLimit(u, c)
    \/ CleanupOldData

SpecShipped == InitShipped /\ [][NextShipped]_vars

\* The two cogs that limit their commands, each with the RateLimiter its
\* constructor made: /chat and /ask ask ChatCommands.rate_limiter (chat.py:38,
\* 108), /moderate asks ModerationCommands.rate_limiter (moderation.py:28).
ModerateCommand(user_id) ==
    /\ LET res == check_rate_limit(moderation_limiter.global_requests,
                                   moderation_limiter.user_requests,
                                   user_id, "moderate", now, NoFault)
       IN  /\ moderation_limiter' = [global_requests |-> res.G,
                                     user_requests |-> res.UR]
           /\ ret' = [op |-> "check_rate_limit", user |-> user_id,
                      cmd |-> "moderate", ok |-> res.ok, raised |-> res.raised]
    /\ UNCHANGED <<now, global_requests, user_requests, task, admits, storeVars,
                   appVars, limits>>

NextCogs ==
    \/ Tick
    \/ \E u \in Users, c \in {"chat", "ask"} : CheckRateLimit(u, c)
    \/ \E u \in Users : ModerateCommand(u)

SpecCogs == Init /\ [][NextCogs]_vars

\* The handlers alone, with exceptions raised inside check_rate_limit.
NextFault ==
    \/ Tick
    \/ \E r \in Tasks, u \in Users, c \in CommandTypes : Defer(r, u, c)
    \/ \E r \in Tasks : Check(r)
    \/ \E r \in Tasks : CheckFault(r)

SpecFault == Init /\ [][NextFault]_vars

\* ------------------------------------------- the conversation memory calls
\* The methods of ConversationMemory are plain defs with no await: one step.
Bucket(u, g) ==
    IF u \in DOMAIN conversations /\ g \in DOMAIN conversations[u]
    THEN conversations[u][g]
    ELSE <<>>

Stamps(u, g) ==
    IF u \in DOMAIN message_timestamps /\ g \in DOMAIN message_timestamps[u]
    THEN message_timestamps[u][g]
    ELSE <<>>

\* the entries an import may carry: with a timestamp of its own, the
\* earliest or the latest time of the clock, or without one
ImportEntries ==
    {[role |-> "user", content |-> "b", timestamp |-> isoformat(0)],
     [role |-> "user", content |-> "b", timestamp |-> isoformat(MaxStoreTime)],
     [role |-> "assistant", content |-> "b"]}

RECURSIVE SeqsUpTo(_, _)
SeqsUpTo(S, n) ==
    IF n = 0 THEN {<<>>}
    ELSE LET shorter == SeqsUpTo(S, n - 1)
         IN  shorter \cup {Append(q, x) : q \in shorter, x \in S}

ImportTexts == {json_dumps(q) : q \in SeqsUpTo(ImportEntries, MaxImport)}

\* time passes
StoreTick ==
    /\ utcnow < MaxStoreTime
    /\ utcnow' = utcnow + 1
    /\ out' = NoRet
    /\ UNCHANGED <<conversations, message_timestamps, written, limiterVars, appVars, cogVars>>

AddMessage(user_id, guild_id, role, content) ==
    /\ Len(written[user_id][guild_id]) < MaxWrites
    /\ LET res == add_message(conversations, message_timestamps,
                              user_id, guild_id, role, content, utcnow)
       IN  /\ conversations' = res.C
           /\ message_timestamps' = res.T
    /\ out' = [op |-> "add_message", user |-> user_id, guild |-> guild_id,
               role |-> role, content |-> content]
    /\ written' = [written EXCEPT ![user_id][guild_id] =
                      Append(@, [role |-> role, content |-> content,
                                 at |-> utcnow, by |-> "append"])]
    /\ UNCHANGED <<utcnow, limiterVars, appVars, cogVars>>

GetContext(user_id, guild_id, max_messages) ==
    /\ LET res == get_context(conversations, message_timestamps,
                              user_id, guild_id, max_messages, utcnow)
       IN  /\ conversations' = res.C
           /\ message_timestamps' = res.T
           /\ out' = [op |-> "get_context", user |-> user_id, guild |-> guild_id,
                      max_messages |-> max_messages, value |-> res.value]
    /\ UNCHANGED <<utcnow, written, limiterVars, appVars, cogVars>>

ClearUserMemory(user_id, guild_id) ==
    /\ LET res == clear_user_memory(conversations, message_timestamps,
                                    user_id, guild_id)
       IN  /\ conversations' = res.C
           /\ message_timestamps' = res.T
    /\ out' = [op |-> "clear_user_memory", user |-> user_id, guild |-> guild_id,
               \* at the call: the Turns the user's buckets held
               held |-> Cardinality({<<g, i>> \in Guilds \X (1..max_messages_per_user) :
                                       i \in DOMAIN Bucket(user_id, g)})]
    /\ written' = [written EXCEPT ![user_id] =
                      [g \in Guilds |->
                          IF g \in Cleared(conversations, user_id, guild_id)
                          THEN <<>> ELSE @[g]]]
    /\ UNCHANGED <<utcnow, limiterVars, appVars, cogVars>>

ConversationStats(user_id, guild_id) ==
    /\ LET res == conversation_get_user_stats(conversations, user_id, guild_id)
       IN  /\ conversations' = res.C
           /\ out' = [op |-> "get_user_stats", user |-> user_id,
                      guild |-> guild_id, value |-> res.value]
    /\ UNCHANGED <<utcnow, message_timestamps, written, limiterVars, appVars, cogVars>>

ExportConversation(user_id, guild_id) ==
    /\ LET res == export_conversation(conversations, user_id, guild_id)
       IN  /\ conversations' = res.C
           /\ out' = [op |-> "export_conversation", user |-> user_id,
                      guild |-> guild_id, value |-> res.value]
    /\ UNCHANGED <<utcnow, message_timestamps, written, limiterVars, appVars, cogVars>>

ImportConversation(user_id, guild_id, json_data) ==
    /\ LET res == import_conversation(conversations, message_timestamps,
                                      user_id, guild_id, json_data, utcnow)
       IN  /\ conversations' = res.C
           /\ message_timestamps' = res.T
           /\ out' = [op |-> "import_conversation", user |-> user_id,
                      guild |-> guild_id, raised |-> res.raised]
           /\ written' = IF ~IsJson(json_data) THEN written
                         ELSE [written EXCEPT ![user_id] =
                                  [g \in Guilds |->
                                      IF g = guild_id THEN res.imported
                                      ELSE IF g \in res.cleared THEN <<>>
                                      ELSE @[g]]]
    /\ UNCHANGED <<utcnow, limiterVars, appVars, cogVars>>

NextStore ==
    \/ StoreTick
    \/ \E u \in Users, g \in StoreGuilds, role \in Roles, content \in Contents :
           AddMessage(u, g, role, content)
    \/ \E u \in Users, g \in StoreGuilds, k \in 0..max_messages_per_user :
           GetContext(u, g, k)
    \/ \E u \in Users, g \in StoreGuilds \cup {NoGuild} : ClearUserMemory(u, g)
    \/ \E u \in Users, g \in StoreGuilds : ConversationStats(u, g)
    \/ \E u \in Users, g \in StoreGuilds : ExportConversation(u, g)
    \/ \E u \in Users, g \in StoreGuilds, json_data \in ImportTexts :
           ImportConversation(u, g, json_data)

SpecStore == Init /\ [][NextStore]_vars

\* The memory with both guild ids and a role that is neither user nor
\* assistant, the clock standing still.
NextScopes ==
    \/ \E u \in Users, g \in Guilds, role \in AnyRoles, content \in Contents :
           AddMessage(u, g, role, content)
    \/ \E u \in Users, g \in Guilds : GetContext(u, g, max_messages_per_user)
    \/ \E u \in Users, g \in Guilds \cup {NoGuild} : ClearUserMemory(u, g)
    \/ \E u \in Users, g \in Guilds : ConversationStats(u, g)

SpecScopes == Init /\ [][NextScopes]_vars

\* The entries of an import that is checked entry by entry: with a timestamp
\* of its own, without one, without a role, and with a timestamp that
\* fromisoformat rejects.
ImportItems ==
    {[role |-> "user", content |-> "b", timestamp |-> isoformat(0)],
     [role |-> "assistant", content |-> "b"],
     [content |-> "b"],
     [role |-> "user", content |-> "b", timestamp |-> [text |-> "yesterday"]]}

\* a text json.loads rejects
NotJson == [text |-> "not json"]

ItemTexts == {json_dumps(q) : q \in SeqsUpTo(ImportItems, MaxImport)} \cup {NotJson}

\* import_conversation, the text given and the number of Turns found noted in
\* out
ImportNoted(user_id, guild_id, json_data) ==
    /\ LET res == import_conversation(conversations, message_timestamps,
                                      user_id, guild_id, json_data, utcnow)
       IN  /\ conversations' = res.C
           /\ message_timestamps' = res.T
           /\ out' = [op |-> "import_conversation", user |-> user_id,
                      guild |-> guild_id, raised |-> res.raised,
                      data |-> json_data,
                      held |-> Len(Bucket(user_id, guild_id))]
           /\ written' = IF ~IsJson(json_data) THEN written
                         ELSE [written EXCEPT ![user_id] =
                                  [g \in Guilds |->
                                      IF g = guild_id THEN res.imported
                                      ELSE IF g \in res.cleared THEN <<>>
                                      ELSE @[g]]]
    /\ UNCHANGED <<utcnow, limiterVars, appVars, cogVars>>

\* the text export_conversation has just returned is imported
ImportExported(user_id, guild_id) ==
    /\ out.op = "export_conversation"
    /\ out.user = user_id
    /\ out.guild = guild_id
    /\ ImportNoted(user_id, guild_id, out.value)

NextImport ==
    \/ StoreTick
    \/ \E u \in Users, g \in StoreGuilds, role \in Roles, content \in Contents :
           AddMessage(u, g, role, content)
    \/ \E u \in Users, g \in StoreGuilds, json_data \in ItemTexts :
           ImportNoted(u, g, json_data)

SpecImport == Init /\ [][NextImport]_vars

\* export and import of what was exported
NextRoundTrip ==
    \/ StoreTick
    \/ \E u \in Users, g \in StoreGuilds, role \in Roles, content \in Contents :
           AddMessage(u, g, role, content)
    \/ \E u \in Users, g \in StoreGuilds : ExportConversation(u, g)
    \/ \E u \in Users, g \in StoreGuilds : ImportExported(u, g)

SpecRoundTrip == Init /\ [][NextRoundTrip]_vars

\* Two users on one limiter and one memory: every operation of the public
\* interface called for either user, the clocks standing still. The two objects share no field, so a
\* run works on one of them and leaves the other as constructed.
ActorTexts == {json_dumps(<<e>>) : e \in ImportItems} \cup {NotJson}

LimiterAsConstructed ==
    now = 0 /\ global_requests = <<>> /\ user_requests = <<>> /\ ret = NoRet

MemoryAsConstructed ==
    utcnow = 0 /\ conversations = <<>> /\ message_timestamps = <<>> /\ out = NoRet

ActorsLimiter ==
    /\ MemoryAsConstructed
    /\ \/ \E u \in Actors, c \in {"chat", "ask"} : CheckRateLimit(u, c)
       \/ \E u \in Actors, c \in {None, "chat"} : GetTimeUntilReset(u, c)
       \/ \E u \in Actors : GetUserStats(u)
       \/ \E u \in Actors, c \in {None, "chat"} : ResetUserLimits(u, c)

ActorsMemory ==
    /\ LimiterAsConstructed
    /\ \/ \E u \in Actors : AddMessage(u, 1, "user", "a")
       \/ \E u \in Actors : GetContext(u, 1, max_messages_per_user)
       \/ \E u \in Actors, g \in StoreGuilds \cup {NoGuild} : ClearUserMemory(u, g)
       \/ \E u \in Actors : ExportConversation(u, 1)
       \/ \E u \in Actors, json_data \in ActorTexts : ImportConversation(u, 1, json_data)

NextActors == ActorsLimiter \/ ActorsMemory

SpecActors == Init /\ [][NextActors]_vars

\* ------------------------------------------------ the handlers and the memory
\* /chat, /ask and a mention of the bot, each a coroutine of the one event
\* loop: a step runs from one await to the next. request[r] is the coroutine's
\* position and locals, trace[r] what the request has done so far.
Kinds == {"chat", "ask", "mention"}

Message(n) == [message |-> n]
Response(n) == [response |-> n]

Event(r, e) == [trace EXCEPT ![r] = @ \o e]

\* chat.py:34, 104 "await interaction.response.defer"; message.py:27 "await
\* moderation_cog.auto_moderate_message(message)" for a message that mentions
\* the bot in a guild
Begin(r, kind, user_id, guild_id) ==
    /\ request[r].pc = "idle"
    /\ serial < MaxRequests
    /\ serial' = serial + 1
    /\ request' = [request EXCEPT ![r] =
                       [pc |-> "awaited", kind |-> kind, user |-> user_id,
                        guild |-> guild_id, n |-> serial + 1]]
    /\ trace' = [trace EXCEPT ![r] = <<>>]
    /\ UNCHANGED <<limiterVars, storeVars, cogVars>>

\* chat.py:38-63: the limiter is asked; a denied request answers and returns,
\* an admitted one fetches the context and awaits the generator
ChatProceeds(r) ==
    /\ request[r].pc = "awaited"
    /\ request[r].kind = "chat"
    /\ LET user_id == request[r].user
           guild_id == request[r].guild
           allow == check_rate_limit(global_requests, user_requests, user_id,
                                     "chat", now, NoFault)
           context == get_context(conversations, message_timestamps, user_id,
                                  guild_id, ContextMessages, utcnow)
       IN  /\ global_requests' = allow.G
           /\ user_requests' = allow.UR
           /\ IF allow.ok
              THEN /\ conversations' = context.C
                   /\ message_timestamps' = context.T
                   /\ request' = [request EXCEPT ![r].pc = "generating"]
                   /\ trace' = Event(r,
                          <<[ev |-> "check_rate_limit", ok |-> TRUE],
                            [ev |-> "get_context", value |-> context.value],
                            [ev |-> "generate", message |-> Message(request[r].n),
                             context |-> context.value]>>)
              ELSE /\ request' = [request EXCEPT ![r].pc = "idle"]
                   /\ trace' = Event(r, <<[ev |-> "check_rate_limit", ok |-> FALSE]>>)
                   /\ UNCHANGED <<conversations, message_timestamps>>
    /\ UNCHANGED <<now, task, ret, admits, utcnow, out, written, serial, cogVars>>

\* chat.py:108-133: /ask asks the limiter and awaits the generator; it does
\* not use the memory
AskProceeds(r) ==
    /\ request[r].pc = "awaited"
    /\ request[r].kind = "ask"
    /\ LET allow == check_rate_limit(global_requests, user_requests,
                                     request[r].user, "ask", now, NoFault)
       IN  /\ global_requests' = allow.G
           /\ user_requests' = allow.UR
           /\ IF allow.ok
              THEN /\ request' = [request EXCEPT ![r].pc = "generating"]
                   /\ trace' = Event(r,
                          <<[ev |-> "check_rate_limit", ok |-> TRUE],
                            [ev |-> "generate", message |-> Message(request[r].n),
                             context |-> <<>>]>>)
              ELSE /\ request' = [request EXCEPT ![r].pc = "idle"]
                   /\ trace' = Event(r, <<[ev |-> "check_rate_limit", ok |-> FALSE]>>)
    /\ UNCHANGED <<now, task, ret, admits, storeVars, serial, cogVars>>

\* message.py:62-79: _handle_mention fetches the context from the chat cog's
\* memory and awaits the chat cog's generator
MentionProceeds(r) ==
    /\ request[r].pc = "awaited"
    /\ request[r].kind = "mention"
    /\ LET context == get_context(conversations, message_timestamps,
                                  request[r].user, request[r].guild,
                                  ContextMessages, utcnow)
       IN  /\ conversations' = context.C
           /\ message_timestamps' = context.T
           /\ trace' = Event(r,
                  <<[ev |-> "get_context", value |-> context.value],
                    [ev |-> "generate", message |-> Message(request[r].n),
                     context |-> context.value]>>)
    /\ request' = [request EXCEPT ![r].pc = "generating"]
    /\ UNCHANGED <<limiterVars, utcnow, out, written, serial, cogVars>>

\* mutant: the response is added before the user's message
StoreExchangeSwapped(r) ==
    LET user_id == request[r].user
        guild_id == request[r].guild
        first == add_message(conversations, message_timestamps, user_id,
                             guild_id, "assistant", Response(request[r].n), utcnow)
        second == add_message(first.C, first.T, user_id, guild_id,
                              "user", Message(request[r].n), utcnow)
    IN  /\ conversations' = second.C
        /\ message_timestamps' = second.T
        /\ written' = [written EXCEPT ![user_id][guild_id] =
                          @ \o <<[role |-> "assistant",
                                  content |-> Response(request[r].n),
                                  at |-> utcnow, by |-> "append"],
                                 [role |-> "user", content |-> Message(request[r].n),
                                  at |-> utcnow, by |-> "append"]>>]

\* chat.py:66-77, message.py:82-93: the user's message and the response are
\* added, in this order, with no await between the two calls
StoreExchange(r) ==
    LET user_id == request[r].user
        guild_id == request[r].guild
        first == add_message(conversations, message_timestamps, user_id,
                             guild_id, "user", Message(request[r].n), utcnow)
        second == add_message(first.C, first.T, user_id, guild_id,
                              "assistant", Response(request[r].n), utcnow)
    IN  /\ conversations' = second.C
        /\ message_timestamps' = second.T
        /\ written' = [written EXCEPT ![user_id][guild_id] =
                          @ \o <<[role |-> "user", content |-> Message(request[r].n),
                                  at |-> utcnow, by |-> "append"],
                                 [role |-> "assistant",
                                  content |-> Response(request[r].n),
                                  at |-> utcnow, by |-> "append"]>>]

\* mutant: the exchange is stored although the generator raised
GeneratorRaisesStored(r) ==
    /\ request[r].pc = "generating"
    /\ request' = [request EXCEPT ![r].pc = "idle"]
    /\ trace' = Event(r, <<[ev |-> "raised"]>>)
    /\ IF request[r].kind = "ask"
       THEN UNCHANGED <<conversations, message_timestamps, written>>
       ELSE StoreExchange(r)
    /\ UNCHANGED <<limiterVars, utcnow, out, serial, cogVars>>

\* gemini_client.py:76-79: generate_chat_response returns a text
GeneratorReturns(r) ==
    /\ request[r].pc = "generating"
    /\ request' = [request EXCEPT ![r].pc = "idle"]
    /\ IF request[r].kind = "ask"
       THEN /\ trace' = Event(r, <<[ev |-> "returned"]>>)
            /\ UNCHANGED <<conversations, message_timestamps, written>>
       ELSE /\ trace' = Event(r,
                   <<[ev |-> "returned"],
                     [ev |-> "add_message", role |-> "user",
                      content |-> Message(request[r].n)],
                     [ev |-> "add_message", role |-> "assistant",
                      content |-> Response(request[r].n)]>>)
            /\ StoreExchange(r)
    /\ UNCHANGED <<limiterVars, utcnow, out, serial, cogVars>>

\* gemini_client.py:81-88: generate_chat_response raises; chat.py:92-98 and
\* message.py:107-112 answer with an error message
GeneratorRaises(r) ==
    /\ request[r].pc = "generating"
    /\ request' = [request EXCEPT ![r].pc = "idle"]
    /\ trace' = Event(r, <<[ev |-> "raised"]>>)
    /\ UNCHANGED <<limiterVars, storeVars, serial, cogVars>>

NextApp ==
    \/ StoreTick
    \/ \E r \in Tasks, kind \in Kinds, u \in Users, g \in StoreGuilds :
           Begin(r, kind, u, g)
    \/ \E r \in Tasks : ChatProceeds(r)
    \/ \E r \in Tasks : AskProceeds(r)
    \/ \E r \in Tasks : MentionProceeds(r)
    \/ \E r \in Tasks : GeneratorReturns(r)
    \/ \E r \in Tasks : GeneratorRaises(r)

SpecApp == Init /\ [][NextApp]_vars

\* ------------------------------------------------------------- the claims
\* the steps and states a claim speaks of
CheckReturned == ret.op = "check_rate_limit"
Configured(c) == c \in DOMAIN limits

\* how many timestamps of q are less than w ticks old / at most w ticks old
Within(q, w) == Cardinality({i \in DOMAIN q : now - q[i] < w})
Live(q, w) == Cardinality({i \in DOMAIN q : now - q[i] <= w})
GlobalWindow == WindowTicks(limits["global"])

\* C1: for a configured command type with capacity C and window W, a call made
\* while fewer than C recorded calls are within the window (and the global
\* window has room) is admitted, so C calls from an empty window within an
\* interval shorter than W are all admitted; a call made when C admitted calls
\* lie less than W back is denied.
C1_CapacityPerWindow ==
    [][(ret'.op = "check_rate_limit" /\ ~ret'.raised /\ Configured(ret'.cmd)) =>
        LET u == ret'.user
            c == ret'.cmd
        IN  /\ (Live(Win(u, c), WindowTicks(limits[c])) < limits[c].requests
                /\ Live(Glob(u), GlobalWindow) < limits["global"].requests)
               => ret'.ok
            /\ Within(Win(u, c), WindowTicks(limits[c])) >= limits[c].requests
               => ~ret'.ok]_vars

\* C chat calls admitted inside one window, the next one denied by the chat
\* limit while the global window still has room
C1_Witness ==
    /\ CheckReturned /\ ~ret.ok /\ ret.cmd = "chat"
    /\ Len(Win(ret.user, "chat")) = limits["chat"].requests
    /\ Within(Win(ret.user, "chat"), WindowTicks(limits["chat"])) = limits["chat"].requests
    /\ Len(Glob(ret.user)) < limits["global"].requests

\* C2: handlers in flight for one user cannot both be admitted on the last
\* slot: once a call has been admitted when one slot was left in the command
\* window (or the global window), the call of another handler that was in
\* flight at the same time, made at the same clock reading, is not admitted.
C2_LastSlotOnce ==
    \A r \in Tasks :
        (/\ CheckReturned /\ ret.ok
         /\ task[r].pc = "deferred" /\ task[r].user = ret.user
         /\ \/ ret.gfree = 1
            \/ task[r].cmd = ret.cmd /\ Configured(ret.cmd) /\ ret.cfree = 1)
        => ~ENABLED (Check(r) /\ ret'.ok)

\* two handlers of one user in flight for "ask"; one has just taken the slot
C2_Witness ==
    /\ CheckReturned /\ ret.ok /\ ret.cmd = "ask"
    /\ ret.cfree = 1 /\ ret.gfree > 1
    /\ \E r \in Tasks : task[r] = [pc |-> "deferred", user |-> ret.user, cmd |-> "ask"]

\* C3: the calls admitted for one user since its last full reset, whatever
\* their command types, that lie within an interval shorter than the global
\* window never number more than the global capacity.
C3_GlobalCapacity ==
    \A u \in Users : Within(admits[u], GlobalWindow) <= limits["global"].requests

\* the global limit denies a chat call while the chat window has room
C3_Witness ==
    /\ CheckReturned /\ ~ret.ok /\ ret.cmd = "chat"
    /\ Within(admits[ret.user], GlobalWindow) = limits["global"].requests
    /\ Len(Win(ret.user, "chat")) < limits["chat"].requests

\* C4: a call for a full command window whose oldest timestamp is more than W
\* old is admitted when the global window has room.
C4_WindowSlides ==
    [][(ret'.op = "check_rate_limit" /\ ~ret'.raised /\ Configured(ret'.cmd)) =>
        LET u == ret'.user
            c == ret'.cmd
        IN  (/\ Len(Win(u, c)) >= limits[c].requests
             /\ now - Head(Win(u, c)) > WindowTicks(limits[c])
             /\ Live(Glob(u), GlobalWindow) < limits["global"].requests)
            => ret'.ok]_vars

\* a chat call admitted although the deque held C timestamps when it was made
C4_Witness ==
    /\ CheckReturned /\ ret.ok /\ ret.cmd = "chat"
    /\ ret.held = limits["chat"].requests

\* how often timestamp t occurs in q
Count(q, t) == Cardinality({i \in DOMAIN q : q[i] = t})
Times == 0..MaxTime

\* q2 is q with one occurrence of the current time added and nothing else added
\* (expired timestamps may have gone)
OneRecorded(q, q2) ==
    /\ Count(q2, now) = Count(q, now) + 1
    /\ \A t \in Times \ {now} : Count(q2, t) <= Count(q, t)

\* q2 holds nothing that q did not hold
NoneRecorded(q, q2) == \A t \in Times : Count(q2, t) <= Count(q, t)

\* C5: a call for a configured command type that returns True has appended
\* exactly one timestamp to the user's command deque and one to the user's
\* global deque, and nothing to any other deque; a call that returns False
\* (denied by either limit) has appended nothing anywhere.
C5_RecordIffAdmitted ==
    [][\A u \in Users, c \in CommandTypes :
        (/\ ret'.op = "check_rate_limit" /\ ~ret'.raised
         /\ ret'.user = u /\ ret'.cmd = c /\ Configured(c)) =>
        /\ ret'.ok => /\ OneRecorded(Win(u, c), Win(u, c)')
                      /\ OneRecorded(Glob(u), Glob(u)')
        /\ ~ret'.ok => /\ NoneRecorded(Win(u, c), Win(u, c)')
                       /\ NoneRecorded(Glob(u), Glob(u)')
        /\ \A c2 \in (DOMAIN limits \cup CommandTypes) \ {c} :
               NoneRecorded(Win(u, c2), Win(u, c2)')]_vars

\* a chat call denied by the chat limit alone, after admitted chat calls
C5_Witness ==
    /\ CheckReturned /\ ~ret.ok /\ ret.cmd = "chat"
    /\ ret.cfree = 0 /\ ret.gfree > 0
    /\ Len(Win(ret.user, "chat")) = limits["chat"].requests
    /\ Len(Glob(ret.user)) = limits["chat"].requests

\* C6: a call of check_rate_limit in which an exception is raised returns
\* True, whatever the windows hold.
C6_FailOpen == (CheckReturned /\ ret.raised) => ret.ok

\* an exception in a call that the global limit would have denied
C6_Witness == CheckReturned /\ ret.raised /\ ret.ok /\ ret.gfree = 0

\* C7: a call for a command type that is no key of self.limits returns True
\* exactly when the user's global deque holds fewer unexpired timestamps than
\* the global capacity; an admitted one is appended to the global deque and
\* user_requests is left as it was.
C7_UnconfiguredGlobalOnly ==
    [][\A u \in Users, c \in CommandTypes :
        (/\ ret'.op = "check_rate_limit" /\ ~ret'.raised
         /\ ret'.user = u /\ ret'.cmd = c /\ ~Configured(c)) =>
        /\ ret'.ok <=> Live(Glob(u), GlobalWindow) < limits["global"].requests
        /\ ret'.ok => OneRecorded(Glob(u), Glob(u)')
        /\ user_requests' = user_requests]_vars

\* an unconfigured call takes the last global slot while the ask window is full
C7_Witness ==
    /\ CheckReturned /\ ret.ok /\ ret.cmd = "other" /\ ret.gfree = 1
    /\ Len(Win(ret.user, "ask")) = limits["ask"].requests
    /\ Win(ret.user, "other") = <<>>

TimeReturned == ret.op = "get_time_until_reset"

\* the limit a query for command_type asks about, and the deque it counts in
Queried(c) == IF c = None THEN "global" ELSE c
QueriedDeque(u, c) == IF c = None THEN Glob(u) ELSE Win(u, c)

\* W minus the age of the oldest timestamp of q, in ticks, clamped at zero
Remaining(q, k) == Max0(WindowTicks(limits[k]) - (now - Head(q)))

\* v whole seconds is Remaining(q, k) with the fraction of a second dropped
IsWholeSecondsOf(v, q, k) ==
    /\ v \in Nat
    /\ v * TicksPerSecond <= Remaining(q, k)
    /\ Remaining(q, k) < (v + 1) * TicksPerSecond

\* C8 as stated: zero when the queried window is under capacity, and
\* otherwise exactly W minus the age of its oldest timestamp, clamped at zero.
C8_AsStated ==
    TimeReturned =>
        LET q == QueriedDeque(ret.user, ret.cmd)
            k == Queried(ret.cmd)
        IN  IF Live(q, WindowTicks(limits[k])) < limits[k].requests
            THEN ret.value = 0
            ELSE ret.value * TicksPerSecond = Remaining(q, k)

\* C8 amended: the result is zero when the queried deque and the global deque
\* both hold fewer timestamps than their capacities; when the queried deque
\* holds its capacity it is W minus the age of its oldest timestamp, clamped
\* at zero and truncated to whole seconds; otherwise, the global deque holding
\* its capacity, it is that value for the global deque.
C8_WholeSecondsOfEitherLimit ==
    TimeReturned =>
        LET u == ret.user
            own == ret.cmd # None /\ Len(Win(u, ret.cmd)) >= limits[ret.cmd].requests
            glob == Len(Glob(u)) >= limits["global"].requests
        IN  /\ own => IsWholeSecondsOf(ret.value, Win(u, ret.cmd), ret.cmd)
            /\ (~own /\ glob) => IsWholeSecondsOf(ret.value, Glob(u), "global")
            /\ (~own /\ ~glob) => ret.value = 0

\* the chat window is full with half a second left: the query returns 0
C8_Witness ==
    /\ TimeReturned /\ ret.cmd = "chat" /\ ret.value = 0
    /\ Len(Win(ret.user, "chat")) = limits["chat"].requests
    /\ Remaining(Win(ret.user, "chat"), "chat") = 1

QueryReturned(r) == r.op \in {"get_time_until_reset", "get_user_stats"}
AllCommandTypes == DOMAIN limits \cup CommandTypes

\* C10 as stated: a query leaves the deques and the keys of both maps as they
\* were.
C10_AsStated ==
    [][QueryReturned(ret') =>
        /\ global_requests' = global_requests
        /\ user_requests' = user_requests]_vars

\* C10 amended: a query leaves every recorded timestamp as it was and removes
\* no key; the only change it can make is to create empty deques.
C10_QueriesKeepTimestamps ==
    [][QueryReturned(ret') =>
        /\ \A u \in Users :
            /\ Glob(u)' = Glob(u)
            /\ \A c \in AllCommandTypes : Win(u, c)' = Win(u, c)
        /\ DOMAIN global_requests \subseteq DOMAIN global_requests'
        /\ \A u \in DOMAIN user_requests :
            /\ u \in DOMAIN user_requests'
            /\ DOMAIN user_requests[u] \subseteq DOMAIN user_requests'[u]]_vars

\* stats asked while the global deque still holds an expired timestamp
C10_Witness ==
    /\ ret.op = "get_user_stats"
    /\ Glob(ret.user) # <<>>
    /\ now - Head(Glob(ret.user)) > GlobalWindow

\* the deque that counts against entry k of the table: the global deque for
\* "global", the command deque for a command type
Window(u, k) == IF k = "global" THEN Glob(u) ELSE Win(u, k)

ResetReturned == ret.op = "reset_user_limits"

\* C11: a reset with the command type omitted leaves the user's global deque
\* and every command deque empty, and the next check_rate_limit of that user,
\* for any command type, is admitted: the one made right after the reset, and
\* any one made while the deques are still empty.
C11_FullResetAdmits ==
    [][\A u \in Users :
        /\ (ret'.op = "reset_user_limits" /\ ret'.user = u /\ ret'.cmd = None)
           => /\ Glob(u)' = <<>>
              /\ \A c \in AllCommandTypes : Win(u, c)' = <<>>
        /\ (ret'.op = "check_rate_limit" /\ ret'.user = u /\ ~ret'.raised
            /\ \/ (ResetReturned /\ ret.user = u /\ ret.cmd = None)
               \/ (Glob(u) = <<>> /\ \A c \in AllCommandTypes : Win(u, c) = <<>>))
           => ret'.ok]_vars

\* a full reset has just emptied a global deque that held timestamps, while a
\* handler of that user waits to call check_rate_limit
C11_Witness ==
    /\ ResetReturned /\ ret.cmd = None /\ ret.held > 0
    /\ Glob(ret.user) = <<>>
    /\ \E r \in Tasks : task[r].pc = "deferred" /\ task[r].user = ret.user

\* C12, as stated: after reset(user, k), for every entry k of the table, the
\* global entry included, the user's occurrences counted against k are cleared
\* and the windows of all other entries are unchanged.
C12_AsStated ==
    [][\A u \in Users, k \in DOMAIN limits :
        (ret'.op = "reset_user_limits" /\ ret'.user = u /\ ret'.cmd = k)
        => /\ Live(Window(u, k), WindowTicks(limits[k]))' = 0
           /\ \A d \in DOMAIN limits \ {k} : Window(u, d)' = Window(u, d)]_vars

\* C13: when cleanup_old_data has returned, no deque of a user either map
\* still holds has a timestamp older than the largest configured window, and
\* every user still held has at least one timestamp, in the global deque or in
\* a command deque.
C13_SweepBounds ==
    ret.op = "cleanup_old_data" =>
        \A u \in DOMAIN global_requests \cup DOMAIN user_requests :
            /\ \A i \in DOMAIN Glob(u) : now - Glob(u)[i] <= MaxWindow
            /\ \A c \in AllCommandTypes :
                   \A i \in DOMAIN Win(u, c) : now - Win(u, c)[i] <= MaxWindow
            /\ \/ Glob(u) # <<>>
               \/ \E c \in AllCommandTypes : Win(u, c) # <<>>

\* a sweep evicted an expired timestamp and left a younger one
C13_Witness ==
    /\ ret.op = "cleanup_old_data"
    /\ ret.evicted # {}
    /\ \E u \in ret.evicted : Glob(u) # <<>>

\* a sweep let go of a user who had no timestamp left
C13_WitnessDropped ==
    /\ ret.op = "cleanup_old_data"
    /\ ret.dropped # {}

Sorted(q) == \A i, j \in DOMAIN q : i <= j => q[i] <= q[j]
NoneOlder(q, w) == \A i \in DOMAIN q : now - q[i] <= w

\* C14: the clock never goes back; in every reachable state the timestamps of
\* every deque are in non-decreasing order, so the head is the oldest one; and
\* when an exception-free check_rate_limit has returned, the global deque it
\* checked, and the command deque if it went on to check it, hold no timestamp
\* older than the window of their limit.
C14_OrderedAndEvicted ==
    /\ \A u \in Users :
           /\ Sorted(Glob(u))
           /\ \A c \in AllCommandTypes : Sorted(Win(u, c))
    /\ (CheckReturned /\ ~ret.raised) =>
           /\ NoneOlder(Glob(ret.user), GlobalWindow)
           /\ (Configured(ret.cmd) /\ ret.gfree > 0) =>
                  NoneOlder(Win(ret.user, ret.cmd), WindowTicks(limits[ret.cmd]))

\* an admitted chat call evicted the expired head of the chat deque and
\* appended its own timestamp behind a younger one still in the window
C14_Witness ==
    /\ CheckReturned /\ ret.ok /\ ret.cmd = "chat"
    /\ ret.held = limits["chat"].requests
    /\ Len(Win(ret.user, "chat")) = ret.held /\ ret.held >= 2
    /\ Win(ret.user, "chat")[1] < Win(ret.user, "chat")[2]

\* --------------------------------------- the conversation memory's claims
Buckets == Users \X Guilds

\* a message of a bucket as a Turn of the history
TurnOf(message, by) ==
    [role |-> message.role, content |-> message.content,
     at |-> fromisoformat(message.timestamp), by |-> by]

\* the last n elements of q
LastN(q, n) == IF Len(q) <= n THEN q ELSE SubSeq(q, Len(q) - n + 1, Len(q))

\* role and content alone
Strip(q) == [i \in DOMAIN q |-> [role |-> q[i].role, content |-> q[i].content]]

AppendsOnly(log) == \A i \in DOMAIN log : log[i].by = "append"

\* the Turns of a history less than the retention old / not more than it
Younger(log) == SelectSeq(log, LAMBDA x : utcnow - x.at < memory_duration)
NotOlder(log) == SelectSeq(log, LAMBDA x : utcnow - x.at <= memory_duration)

IsSuffix(p, q) == Len(p) <= Len(q) /\ p = LastN(q, Len(p))

ContextReturned == out.op = "get_context"
AppendReturned == out.op = "add_message"

\* C15, as stated, for a bucket written by appends alone and with a Turn of
\* age exactly the retention left either way: a context call asking for N
\* Turns or more reports exactly the Turns of the last N writes that are
\* younger than the retention, and in every state the bucket still holds each
\* of them.
C15_AsStated ==
    \A b \in Buckets :
        LET log == written[b[1]][b[2]]
            lastN == LastN(log, max_messages_per_user)
        IN  AppendsOnly(log) =>
            /\ IsSuffix(Younger(lastN),
                        [i \in DOMAIN Bucket(b[1], b[2]) |->
                            TurnOf(Bucket(b[1], b[2])[i], "append")])
            /\ (ContextReturned /\ out.user = b[1] /\ out.guild = b[2]
                /\ out.max_messages >= max_messages_per_user)
               => out.value \in {Strip(Younger(lastN)), Strip(NotOlder(lastN))}

\* C16, as stated, for a bucket written by appends alone: right after
\* add_message the bucket ends with the new Turn, a context call made at once
\* for any k >= 1 ends with it, and a bucket that was full of Turns within the
\* retention has lost its oldest Turn and nothing else.
C16_AsStated ==
    [][\A b \in Buckets :
        (out'.op = "add_message" /\ out'.user = b[1] /\ out'.guild = b[2]
         /\ AppendsOnly(written[b[1]][b[2]]))
        => LET before == Bucket(b[1], b[2])
               after == Bucket(b[1], b[2])'
               new == [role |-> out'.role, content |-> out'.content,
                       timestamp |-> isoformat(utcnow)]
           IN  /\ after # <<>>
               /\ after[Len(after)] = new
               /\ \A k \in 1..max_messages_per_user :
                      LET value == get_context(conversations', message_timestamps',
                                               b[1], b[2], k, utcnow').value
                      IN  /\ value # <<>>
                          /\ value[Len(value)] = Strip(<<new>>)[1]
               /\ (Len(before) = max_messages_per_user
                   /\ \A i \in DOMAIN before :
                          utcnow - fromisoformat(before[i].timestamp)
                              <= memory_duration)
                  => after = Append(Tail(before), new)]_vars

\* C17: no bucket ever holds more than max_messages_per_user Turns, whatever
\* the sequence of add_message, import_conversation, clear_user_memory,
\* get_context, export_conversation and get_user_stats calls.
C17_AtMostN ==
    \A b \in Buckets : Len(Bucket(b[1], b[2])) <= max_messages_per_user

\* an import of more than N entries has left exactly N Turns in the bucket
C17_Witness ==
    /\ out.op = "import_conversation"
    /\ Len(written[out.user][out.guild]) > max_messages_per_user
    /\ Len(Bucket(out.user, out.guild)) = max_messages_per_user

\* C18: when more than N Turns have been appended to a bucket since it was
\* created or last cleared, nothing was imported into it, and every one of
\* these appends lies within the retention duration, the bucket holds exactly
\* the last N of them, in the order appended.
C18_LastNAppended ==
    \A b \in Buckets :
        LET log == written[b[1]][b[2]]
        IN  (Len(log) > max_messages_per_user /\ AppendsOnly(log)
             /\ NotOlder(log) = log)
            => [i \in DOMAIN Bucket(b[1], b[2]) |->
                   TurnOf(Bucket(b[1], b[2])[i], "append")]
               = LastN(log, max_messages_per_user)

\* the append that took a bucket past N appends, made on a later tick than
\* the first one, all of them within the retention
C18_Witness ==
    /\ AppendReturned
    /\ LET log == written[out.user][out.guild]
       IN  /\ Len(log) > max_messages_per_user
           /\ AppendsOnly(log)
           /\ NotOlder(log) = log
           /\ log[1].at < utcnow

\* C19, as stated: get_context(user, guild, max_messages) returns, for every
\* max_messages >= 0, at most max_messages entries, which are a suffix of the
\* bucket as the call leaves it, each with role and content alone.
C19_AsStated ==
    ContextReturned =>
        /\ Len(out.value) <= out.max_messages
        /\ IsSuffix(out.value, Strip(Bucket(out.user, out.guild)))
        /\ \A i \in DOMAIN out.value : DOMAIN out.value[i] = {"role", "content"}

\* C20 says a Turn appended at time t is reported by no context call made at
\* t + retention or later. This is the part of it for calls made later than
\* t + retention: the Turns a context call reports that add_message wrote
\* (those of content a) are no older than the retention.
C20_AbsentAfterRetention ==
    (ContextReturned /\ out.max_messages >= 1) =>
        LET bucket == Bucket(out.user, out.guild)
            reported == LastN(bucket, Len(out.value))
        IN  \A i \in DOMAIN reported :
                reported[i].content \in Contents
                => utcnow - fromisoformat(reported[i].timestamp) <= memory_duration

\* ---------------------------------------------------------------------------
\* Claims on ordering, clearing, export and statistics of the memory

StampsOf(q) == [i \in DOMAIN q |-> fromisoformat(q[i].timestamp)]

ClearReturned == out.op = "clear_user_memory"
StatsReturned == out.op = "get_user_stats"
ExportReturned == out.op = "export_conversation"

\* C21, as stated, in its first half: after any sequence of add_message,
\* import_conversation, clear_user_memory and get_context calls the Turns of
\* every bucket are in non-decreasing order of their timestamps.
C21_AsStated ==
    \A b \in Buckets : Sorted(StampsOf(Bucket(b[1], b[2])))

\* C22, as stated: clear_user_memory(user, guild) with a guild id given, 0
\* included, empties that guild's bucket and leaves the user's other buckets
\* as they were.
C22_AsStated ==
    [][\A u \in Users, g \in Guilds :
           (ClearReturned' /\ out'.user = u /\ out'.guild = g)
           => /\ Bucket(u, g)' = <<>>
              /\ \A h \in Guilds \ {g} : Bucket(u, h)' = Bucket(u, h)]_vars

\* C23: when clear_user_memory(user) without a guild id has returned, every
\* bucket of the user is empty; and as long as nothing has been written to a
\* bucket since, get_context returns the empty list for it, whatever the
\* number of messages asked for.
C23_ClearAllEmpties ==
    \A u \in Users :
        /\ (ClearReturned /\ out.user = u /\ out.guild = NoGuild)
           => \A g \in Guilds : Bucket(u, g) = <<>>
        /\ \A g \in Guilds, k \in 0..max_messages_per_user :
               written[u][g] = <<>>
               => get_context(conversations, message_timestamps, u, g, k,
                              utcnow).value = <<>>

\* a clear without guild id has returned that found Turns in both guilds
C23_Witness ==
    /\ ClearReturned
    /\ out.guild = NoGuild
    /\ out.held > max_messages_per_user
    /\ \A g \in Guilds : Bucket(out.user, g) = <<>>

\* C24, as stated: export_conversation and get_user_stats report the bucket
\* as the expiry purge leaves it: no exported Turn is older than the
\* retention, and the total of the statistics is the number of Turns of the
\* bucket that are not older than the retention. Stated for buckets written
\* by add_message alone.
C24_AsStated ==
    \A u \in Users, g \in Guilds :
        (out.op \in {"export_conversation", "get_user_stats"}
         /\ out.user = u /\ out.guild = g /\ AppendsOnly(written[u][g]))
        => LET bucket == Bucket(u, g)
               fresh == {i \in DOMAIN bucket :
                            utcnow - fromisoformat(bucket[i].timestamp)
                                <= memory_duration}
           IN  /\ ExportReturned
                  => \A i \in DOMAIN json_loads(out.value) :
                         utcnow - fromisoformat(json_loads(out.value)[i].timestamp)
                             <= memory_duration
               /\ StatsReturned
                  => out.value.total_messages = Cardinality(fresh)

\* C28, as stated: every Turn of every bucket has the role user or assistant,
\* and the total of get_user_stats is the sum of its user and assistant
\* counts.
C28_AsStated ==
    /\ \A b \in Buckets :
           \A i \in DOMAIN Bucket(b[1], b[2]) :
               Bucket(b[1], b[2])[i].role \in Roles
    /\ StatsReturned
       => out.value.total_messages
              = out.value.user_messages + out.value.ai_messages

\* ---------------------------------------------------------------------------
\* Claims on import and export

ImportReturned == out.op = "import_conversation"

WellFormed(message) == {"role", "content"} \subseteq DOMAIN message

\* what the claims expect of an import made at time current: the well-formed
\* entries in their order, as role, content and instant
Expected(messages, current) ==
    LET kept == SelectSeq(messages, WellFormed)
    IN  [i \in DOMAIN kept |->
            [role |-> kept[i].role, content |-> kept[i].content,
             at |-> IF "timestamp" \in DOMAIN kept[i]
                    THEN kept[i].timestamp.iso ELSE current]]

\* a bucket as role, content and instant
Turns(q) ==
    [i \in DOMAIN q |->
        [role |-> q[i].role, content |-> q[i].content,
         at |-> fromisoformat(q[i].timestamp)]]

\* C25: when import_conversation has returned without an exception, the bucket
\* is the well-formed entries of the text in their order, cut to the last N,
\* each at its own timestamp when it has one and at the time of the import
\* otherwise; nothing the bucket held before is left.
C25_ImportReplaces ==
    (ImportReturned /\ ~out.raised)
    => Turns(Bucket(out.user, out.guild))
       = LastN(Expected(json_loads(out.data), utcnow), max_messages_per_user)

\* an import into a bucket that held Turns, of more than N well-formed
\* entries, with and without a timestamp of their own
C25_Witness ==
    /\ ImportReturned
    /\ ~out.raised
    /\ out.held > 0
    /\ utcnow > 0
    /\ LET messages == json_loads(out.data)
       IN  /\ Len(SelectSeq(messages, WellFormed)) > max_messages_per_user
           /\ \E i, j \in DOMAIN messages :
                  /\ WellFormed(messages[i]) /\ WellFormed(messages[j])
                  /\ "timestamp" \in DOMAIN messages[i]
                  /\ "timestamp" \notin DOMAIN messages[j]

\* C26: importing the text export_conversation has just returned for a bucket
\* leaves the bucket with the same Turns in the same order, role, content and
\* timestamp.
C26_RoundTrip ==
    [][\A u \in Users, g \in StoreGuilds :
           (ExportReturned /\ out.user = u /\ out.guild = g
            /\ ImportReturned' /\ out'.user = u /\ out'.guild = g
            /\ out'.data = out.value)
           => /\ ~out'.raised
              /\ Bucket(u, g)' = Bucket(u, g)]_vars

\* the export of a full bucket whose Turns were written by add_message at
\* different times, all before now, has been imported
C26_Witness ==
    /\ ImportReturned
    /\ IsJson(out.data)
    /\ out.held = max_messages_per_user
    /\ LET bucket == Bucket(out.user, out.guild)
       IN  /\ json_loads(out.data) = bucket
           /\ Len(bucket) = max_messages_per_user
           /\ \A i \in DOMAIN bucket :
                  /\ bucket[i].content \in Contents
                  /\ fromisoformat(bucket[i].timestamp) < utcnow
           /\ fromisoformat(bucket[1].timestamp)
                  < fromisoformat(bucket[Len(bucket)].timestamp)

\* C27: an entry without role or content is passed over and does not end the
\* import: when import_conversation has returned without an exception, the
\* Turns it appended are the well-formed entries before and after it, in
\* their order.
C27_MalformedSkipped ==
    (ImportReturned /\ ~out.raised)
    => [i \in DOMAIN written[out.user][out.guild] |->
           [role |-> written[out.user][out.guild][i].role,
            content |-> written[out.user][out.guild][i].content,
            at |-> written[out.user][out.guild][i].at]]
       = Expected(json_loads(out.data), utcnow)

\* an import of a well-formed entry, an entry without role, and a well-formed
\* entry
C27_Witness ==
    /\ ImportReturned
    /\ ~out.raised
    /\ LET messages == json_loads(out.data)
       IN  /\ Len(messages) = MaxImport
           /\ WellFormed(messages[1])
           /\ \E i \in 2..(MaxImport - 1) : ~WellFormed(messages[i])
           /\ WellFormed(messages[MaxImport])
    /\ Len(written[out.user][out.guild]) >= 2

\* ---------------------------------------------------------------------------
\* Claims on the handlers' use of the limiter, the memory and the generator

\* among the first i - 1 events of q, a check_rate_limit that returned True
Admitted(q, i) ==
    \E j \in 1..(i - 1) : q[j].ev = "check_rate_limit" /\ q[j].ok

\* the events of q other than the limiter's
AfterAllow(q) == SelectSeq(q, LAMBDA e : e.ev # "check_rate_limit")

IsPrefix(p, q) == Len(p) <= Len(q) /\ p = SubSeq(q, 1, Len(p))

\* C29, as stated: within a request, every read of the memory, every call of
\* the generator and every append to the memory comes after a
\* check_rate_limit of that request that returned True; and a request whose
\* check_rate_limit returned False does nothing after it.
C29_AsStated ==
    \A r \in Tasks :
        \A i \in DOMAIN trace[r] :
            /\ trace[r][i].ev \in {"get_context", "generate", "add_message"}
               => Admitted(trace[r], i)
            /\ (trace[r][i].ev = "check_rate_limit" /\ ~trace[r][i].ok)
               => i = Len(trace[r])

\* C30: a /chat or mention request fetches the context, calls the generator
\* with that context, and only when the generator has returned adds the
\* user's message and then the response; the context never holds the
\* request's own message; when the generator raises, neither is added to the
\* bucket.
C30_OrderAndFailure ==
    \A r \in Tasks :
        (trace[r] # <<>> /\ request[r].kind \in {"chat", "mention"})
        => LET steps == AfterAllow(trace[r])
               n == request[r].n
               log == written[request[r].user][request[r].guild]
               context == steps[1].value
               fetched == <<[ev |-> "get_context", value |-> context],
                            [ev |-> "generate", message |-> Message(n),
                             context |-> context]>>
               stored == <<[ev |-> "returned"],
                           [ev |-> "add_message", role |-> "user",
                            content |-> Message(n)],
                           [ev |-> "add_message", role |-> "assistant",
                            content |-> Response(n)]>>
               mine == {i \in DOMAIN log :
                           log[i].content \in {Message(n), Response(n)}}
           IN  steps # <<>>
               => /\ steps[1].ev = "get_context"
                  /\ \/ IsPrefix(steps, fetched)
                     \/ steps = fetched \o stored
                     \/ steps = fetched \o <<[ev |-> "raised"]>>
                  /\ \A i \in DOMAIN context : context[i].content # Message(n)
                  /\ steps[Len(steps)].ev # "add_message" => mine = {}
                  /\ steps[Len(steps)].ev = "add_message"
                     => \E i, j \in mine :
                            /\ mine = {i, j}
                            /\ i < j
                            /\ log[i].role = "user"
                            /\ log[i].content = Message(n)
                            /\ log[j].role = "assistant"
                            /\ log[j].content = Response(n)

\* two requests are over: one whose generator returned, called with a context
\* that was not empty, and one whose generator raised
C30_Witness ==
    \E r1, r2 \in Tasks :
        /\ request[r1].pc = "idle" /\ request[r2].pc = "idle"
        /\ trace[r1] # <<>> /\ trace[r2] # <<>>
        /\ request[r1].kind \in {"chat", "mention"}
        /\ request[r2].kind \in {"chat", "mention"}
        /\ trace[r1][Len(trace[r1])].ev = "add_message"
        /\ AfterAllow(trace[r1])[1].value # <<>>
        /\ trace[r2][Len(trace[r2])].ev = "raised"

\* ---------------------------------------------------------------------------
\* Claims on the timestamp list, failed imports and requests in flight

\* C34, as stated: in every state, the timestamp list of every bucket is as
\* long as the bucket and its i-th entry is the timestamp of the bucket's
\* i-th Turn.
C34_AsStated ==
    \A b \in Buckets : Stamps(b[1], b[2]) = StampsOf(Bucket(b[1], b[2]))

\* C37, as stated: an import_conversation that fails, on a text that cannot
\* be parsed or on an entry whose timestamp cannot be parsed, leaves the
\* bucket as it was before the call.
C37_AsStated ==
    [][\A u \in Users, g \in StoreGuilds :
           (ImportReturned' /\ out'.user = u /\ out'.guild = g /\ out'.raised)
           => Bucket(u, g)' = Bucket(u, g)]_vars

\* C38: of the Turns written to a bucket, the response of a request comes
\* directly after the request's message, whatever other requests for the same
\* bucket were waiting for the generator at the same time; and where the
\* bucket holds the message of a request, the Turn after it is the response.
C38_ExchangeAdjacent ==
    \A b \in Buckets :
        LET log == written[b[1]][b[2]]
            bucket == Bucket(b[1], b[2])
        IN  /\ \A i \in DOMAIN log :
                   log[i].role = "user"
                   => /\ i + 1 \in DOMAIN log
                      /\ log[i + 1].role = "assistant"
                      /\ log[i + 1].content = Response(log[i].content.message)
            /\ \A i \in DOMAIN log :
                   log[i].role = "assistant"
                   => /\ i - 1 \in DOMAIN log
                      /\ log[i - 1].content = Message(log[i].content.response)
            /\ \A i \in DOMAIN bucket :
                   (bucket[i].role = "user" /\ i + 1 \in DOMAIN bucket)
                   => bucket[i + 1] = [bucket[i] EXCEPT
                                          !.role = "assistant",
                                          !.content = Response(@.message)]

\* two requests for one bucket are over, each of which fetched its context
\* before the other stored its Turns
C38_Witness ==
    \E r1, r2 \in Tasks :
        /\ r1 # r2
        /\ request[r1].pc = "idle" /\ request[r2].pc = "idle"
        /\ trace[r1] # <<>> /\ trace[r2] # <<>>
        /\ request[r1].user = request[r2].user
        /\ request[r1].guild = request[r2].guild
        /\ request[r1].kind = "chat" /\ request[r2].kind = "mention"
        /\ trace[r1][Len(trace[r1])].ev = "add_message"
        /\ trace[r2][Len(trace[r2])].ev = "add_message"
        /\ AfterAllow(trace[r1])[1].value = <<>>
        /\ AfterAllow(trace[r2])[1].value = <<>>
        /\ utcnow = 0
        /\ Len(written[request[r1].user][request[r1].guild]) >= 4

\* ---------------------------------------------------------------------------
\* Claims on the limiter as a whole

\* C33: in every state the handlers, queries, resets and sweeps reach without
\* an exception, the deque of every user and configured command type holds at
\* most that type's number of requests, and every user's global deque at most
\* the global number.
C33_DequesWithinLimits ==
    \A u \in DOMAIN global_requests \cup DOMAIN user_requests \cup Users :
        /\ Len(Glob(u)) <= limits["global"].requests
        /\ \A c \in DOMAIN limits \ {"global"} :
               Len(Win(u, c)) <= limits[c].requests

\* a state in which the global deque and the chat deque of a user are both
\* full, after a call that was denied
C33_Witness ==
    /\ CheckReturned
    /\ ~ret.ok
    /\ Len(Glob(ret.user)) = limits["global"].requests
    /\ Len(Win(ret.user, "chat")) = limits["chat"].requests

\* C35, as stated, for the first call after the sweep: in every state, each
\* of check_rate_limit, get_time_until_reset and get_user_stats returns the
\* same value whether or not cleanup_old_data runs just before it.
C35_AsStated ==
    LET swept == cleanup_old_data(global_requests, user_requests, now)
    IN  \A u \in Users :
            /\ \A c \in CommandTypes :
                   check_rate_limit(swept.G, swept.UR, u, c, now, NoFault).ok
                   = check_rate_limit(global_requests, user_requests, u, c, now,
                                      NoFault).ok
            /\ \A c \in {None} \cup (DOMAIN limits \ {"global"}) :
                   get_time_until_reset(swept.G, swept.UR, u, c, now).value
                   = get_time_until_reset(global_requests, user_requests, u, c,
                                          now).value
            /\ get_user_stats(swept.G, swept.UR, u, now).value
               = get_user_stats(global_requests, user_requests, u, now).value

\* C36: with the shipped table, a call of check_rate_limit for a configured
\* command type that returns False has passed the global limit and failed
\* the limit of its command type.
C36_DeniedByCommandLimit ==
    [][\A u \in Users, c \in DOMAIN limits \ {"global"} :
           (ret'.op = "check_rate_limit" /\ ret'.user = u /\ ret'.cmd = c
            /\ ~ret'.ok)
           => /\ _check_global_limit(global_requests, u, now).ok
              /\ ~_check_command_limit(user_requests, u, c, now).ok]_vars

\* a call has been denied while every command deque was full and the clock
\* had moved
C36_Witness ==
    /\ CheckReturned
    /\ ~ret.ok
    /\ now > 0
    /\ \A c \in DOMAIN limits \ {"global"} :
           Len(Win(ret.user, c)) = limits[c].requests
    /\ Len(Glob(ret.user)) < limits["global"].requests

\* C32, as stated: a /moderate command admitted for a user adds its timestamp
\* to the global deque that the user's /chat and /ask commands are checked
\* against.
C32_AsStated ==
    [][\A u \in Users :
           (ret'.op = "check_rate_limit" /\ ret'.user = u
            /\ ret'.cmd = "moderate" /\ ret'.ok)
           => Count(Glob(u)', now) = Count(Glob(u), now) + 1]_vars


\* C31: an operation of the limiter called for one user (check_rate_limit,
\* get_time_until_reset, get_user_stats, reset_user_limits) leaves the global
\* deque and every command deque of any other user as they were, and the
\* other user's next check_rate_limit answers as it would have answered; an
\* operation of the memory called for one user (add_message, get_context,
\* clear_user_memory, export_conversation, import_conversation) leaves every
\* bucket of any other user as it was.
C31_NoCrossActorInterference ==
    [][\A A \in Actors, B \in Actors :
           A # B =>
           /\ (ret'.op \in {"check_rate_limit", "get_time_until_reset",
                            "get_user_stats", "reset_user_limits"}
               /\ ret'.user = A)
              => /\ Glob(B)' = Glob(B)
                 /\ \A c \in CommandTypes : Win(B, c)' = Win(B, c)
                 /\ \A c \in CommandTypes :
                        check_rate_limit(global_requests', user_requests',
                                         B, c, now', NoFault).ok
                        = check_rate_limit(global_requests, user_requests,
                                           B, c, now, NoFault).ok
           /\ (out'.op \in {"add_message", "get_context", "clear_user_memory",
                            "export_conversation", "import_conversation"}
               /\ out'.user = A)
              => \A g \in Guilds : Bucket(B, g)' = Bucket(B, g)]_vars

\* one user's memory was cleared of the Turns it held while the other
\* user's bucket was full
C31_Witness ==
    /\ out.op = "clear_user_memory" /\ out.user = "u1" /\ out.held > 0
    /\ Bucket("u1", 1) = <<>>
    /\ Len(Bucket("u2", 1)) = max_messages_per_user
====
